---------------------------- MODULE Spec2Model ----------------------------
(***************************************************************************)
(* A model of wpodnet/backend.py: the Predictor's decoding pipeline        *)
(* (_resize_to_fixed_ratio, _get_max_anchor, _get_bounds, predict) and the *)
(* Prediction it returns (annotate, warp).                                 *)
(*                                                                         *)
(* Numbers.  The code computes in binary floating point; the model         *)
(* computes exactly, on integers:                                          *)
(*   - affine parameters are drawn from the integers;                      *)
(*   - _q holds halves and _scaling_const is 31/4, so a decoded            *)
(*     coordinate is a whole number of eighths: a normalised coordinate is *)
(*     kept as its numerator over the denominator 8 * grid_w (8 * grid_h); *)
(*   - a probability is a whole number of MaxProb-ths, MaxProb being 1.0;  *)
(*   - where a float quotient is truncated by int() and the exact quotient *)
(*     is a whole number, the float may fall just below it: the model      *)
(*     takes both outcomes (FloatFloor).                                   *)
(*                                                                         *)
(* Each unit is exercised by a specification of its own, whose initial     *)
(* states draw the unit's inputs:                                          *)
(*   SpecResize   _resize_to_fixed_ratio on an image of any size           *)
(*   SpecAnchor   np.amax and _get_max_anchor on a probability grid        *)
(*   SpecBounds   _get_bounds on an affine grid and an anchor              *)
(*   SpecPredict  predict, then annotate and warp on its Prediction        *)
(***************************************************************************)
EXTENDS Integers, Sequences, FiniteSets

VARIABLES
    pc,        \* where the caller is: "call", then the unit's own labels
    image,     \* the input image: [height, width, pixels], or None
    resized,   \* _resize_to_fixed_ratio's locals: [side, bound_dim, reg_w, reg_h]
    probs,     \* the probability grid: [shape, data]
    affines,   \* the affine grid as it is now: [shape, data]
    affines0,  \* the affine grid as the network returned it
    max_prob,  \* np.amax(probs)
    anchor,    \* <<anchor_y, anchor_x>>
    bounds,    \* _get_bounds's result: [pts, xden, yden]
    pred,      \* the Prediction: [image, bounds, confidence]
    pred0,     \* the Prediction as predict returned it
    saved,     \* the file the last annotate or warp wrote: [fp, kind, image]
    calls,     \* how many times _get_bounds ran on affines
    err        \* the exception that left the last call, or "none"

vars == <<pc, image, resized, probs, affines, affines0, max_prob, anchor,
          bounds, pred, pred0, saved, calls, err>>

\* A variable that holds no object yet.  Each variable keeps one kind of
\* value throughout (a record, a number, a tuple), so that any two states can
\* be compared.
None == [none |-> TRUE]

\* np.amax has not run; no anchor has been selected.
NoProb == 0 - 1

NoAnchor == <<>>

\* Nothing has been written to a file yet.
NoFile == [fp |-> "", kind |-> "none", image |-> None]

\* ------------------------------------------------------------- bounds
\* Largest image side drawn for _resize_to_fixed_ratio.
MaxDim == 40
\* Probability levels: a probability is k / MaxProb, k in 0..MaxProb.
MaxProb == 2
\* The diagonal affine terms a00, a11 are drawn from -MaxScale..MaxScale.
MaxScale == 2
\* The other four affine terms are drawn from -MaxShear..MaxShear.
MaxShear == 1
\* _get_bounds is run at most this many times on one array.
MaxCalls == 2

\* ------------------------------------------------------------ helpers
Min2(a, b) == IF a <= b THEN a ELSE b

Max2(a, b) == IF a >= b THEN a ELSE b

\* int() and astype(np.int32) on a quotient n / d, d > 0: towards zero.
TruncDiv(n, d) == IF n >= 0 THEN n \div d ELSE -((-n) \div d)

\* int(x * (n / d)) as the float computation can come out, x * n >= 0, d > 0:
\* the floor of the exact quotient, or one less when the exact quotient is a
\* whole number and the rounded product falls just below it.
FloatFloor(n, d) ==
    IF n % d = 0 /\ n > 0 THEN {n \div d, (n \div d) - 1} ELSE {n \div d}

\* ----------------------------------------------- _resize_to_fixed_ratio
\* The network's stride and the cap of line 56.
Stride == 16

DimCap == 608

BaseSide == 288

\* side = int(max(h, w) / min(h, w) * 288)
Side(h, w) == (Max2(h, w) * BaseSide) \div Min2(h, w)

\* bound_dim = min(side + side % 16, 608)
BoundDim(side) == Min2(side + (side % Stride), DimCap)

\* The call of _resize_to_fixed_ratio(image).
ResizeToFixedRatio ==
    /\ pc = "call"
    /\ LET h == image.height
           w == image.width
       IN  IF Min2(h, w) = 0
           THEN \* line 54 divides by min(h, w)
                /\ err' = "ZeroDivisionError"
                /\ pc' = "raised"
                /\ UNCHANGED resized
           ELSE LET side == Side(h, w)
                    bound_dim == BoundDim(side)
                IN  \E reg_w \in FloatFloor(w * bound_dim, Min2(h, w)),
                       reg_h \in FloatFloor(h * bound_dim, Min2(h, w)) :
                        /\ resized' = [side |-> side, bound_dim |-> bound_dim,
                                       reg_w |-> reg_w, reg_h |-> reg_h]
                        /\ pc' = "resized"
                        /\ UNCHANGED err
    /\ UNCHANGED <<image, probs, affines, affines0, max_prob, anchor, bounds,
                   pred, pred0, saved, calls>>

\* A PIL image has non-negative sides; its pixels are the set of shapes drawn
\* on it, none at first.
Images(dims) == [height : dims, width : dims, pixels : {{}}]

InitResize ==
    /\ pc = "call"
    /\ image \in Images(0..MaxDim)
    /\ resized = None
    /\ probs = None
    /\ affines = None
    /\ affines0 = None
    /\ max_prob = NoProb
    /\ anchor = NoAnchor
    /\ bounds = None
    /\ pred = None
    /\ pred0 = None
    /\ saved = NoFile
    /\ calls = 0
    /\ err = "none"

NextResize == ResizeToFixedRatio

SpecResize == InitResize /\ [][NextResize]_vars

\* C1: after _resize_to_fixed_ratio on an image with h, w >= 1, bound_dim is
\* in [16, 608] and is a multiple of 16 unless it equals the cap 608.
C1_BoundDimAligned ==
    pc = "resized" =>
        /\ resized.bound_dim \in 16..608
        /\ (resized.bound_dim % 16 = 0 \/ resized.bound_dim = 608)

\* C8: an image with a zero (or negative) side makes _resize_to_fixed_ratio
\* fail with InvalidImageError; an image with h, w >= 1 raises nothing and
\* yields reg_w >= 1 and reg_h >= 1.
C8_InvalidImageError ==
    pc # "call" =>
        IF image.height >= 1 /\ image.width >= 1
        THEN err = "none" /\ resized.reg_w >= 1 /\ resized.reg_h >= 1
        ELSE err = "InvalidImageError"

\* ------------------------------------------------------ grids (numpy)
\* A 2-D array of shape (grid_h, grid_w): [shape |-> <<grid_h, grid_w>>,
\* data |-> [0..grid_h-1 -> [0..grid_w-1 -> value]]].
GridH(g) == g.shape[1]

GridW(g) == g.shape[2]

Cells(shape) == (0..(shape[1] - 1)) \X (0..(shape[2] - 1))

\* Element k of the array flattened in C (row-major) order.
Flat(g, k) == g.data[k \div GridW(g)][k % GridW(g)]

\* np.amax(probs): the largest element.
Amax(g) ==
    CHOOSE v \in {g.data[c[1]][c[2]] : c \in Cells(g.shape)} :
        \A c \in Cells(g.shape) : g.data[c[1]][c[2]] <= v

\* A faulty variant of Better: a later element that ties replaces the earlier one.
BetterOrEqual(g, r, l) == Flat(g, r) >= Flat(g, l)

\* argmax keeps the earlier index unless a later element is strictly larger.
Better(g, r, l) == Flat(g, r) > Flat(g, l)

\* ndarray.argmax(): the flat index of the first occurrence of the maximum,
\* found over the index range lo..hi by halving the range.
RECURSIVE ArgMaxRange(_, _, _)
ArgMaxRange(g, lo, hi) ==
    IF lo = hi
    THEN lo
    ELSE LET mid == (lo + hi) \div 2
             l == ArgMaxRange(g, lo, mid)
             r == ArgMaxRange(g, mid + 1, hi)
         IN  IF Better(g, r, l) THEN r ELSE l

ArgMax(g) == ArgMaxRange(g, 0, GridH(g) * GridW(g) - 1)

\* np.unravel_index(k, shape) for a 2-D shape.
UnravelIndex(k, shape) == <<k \div shape[2], k % shape[2]>>

\* _get_max_anchor(probs)
GetMaxAnchorOf(g) == UnravelIndex(ArgMax(g), g.shape)

\* ---------------------------------------- np.amax and _get_max_anchor
\* Line 114 of predict: max_prob = np.amax(probs).
AmaxStep ==
    /\ pc = "call"
    /\ max_prob' = Amax(probs)
    /\ pc' = "amax"
    /\ UNCHANGED <<image, resized, probs, affines, affines0, anchor, bounds,
                   pred, pred0, saved, calls, err>>

\* Line 115 of predict: anchor_y, anchor_x = self._get_max_anchor(probs).
GetMaxAnchor ==
    /\ pc = "amax"
    /\ anchor' = GetMaxAnchorOf(probs)
    /\ pc' = "anchor"
    /\ UNCHANGED <<image, resized, probs, affines, affines0, max_prob, bounds,
                   pred, pred0, saved, calls, err>>

\* The shapes of the probability grids drawn for _get_max_anchor.
AnchorShapes == {<<1, 1>>, <<1, 3>>, <<3, 1>>, <<2, 2>>, <<2, 3>>}

\* Every grid of a shape over the probability levels.
AllGrids(shape, vals) ==
    {[shape |-> shape, data |-> d] :
        d \in [0..(shape[1] - 1) -> [0..(shape[2] - 1) -> vals]]}

InitAnchor ==
    /\ pc = "call"
    /\ probs \in UNION {AllGrids(s, 0..MaxProb) : s \in AnchorShapes}
    /\ image = None
    /\ resized = None
    /\ affines = None
    /\ affines0 = None
    /\ max_prob = NoProb
    /\ anchor = NoAnchor
    /\ bounds = None
    /\ pred = None
    /\ pred0 = None
    /\ saved = NoFile
    /\ calls = 0
    /\ err = "none"

NextAnchor == AmaxStep \/ GetMaxAnchor

SpecAnchor == InitAnchor /\ [][NextAnchor]_vars

\* The cells before (y, x) in row-major scan order.
Before(c, d) == c[1] < d[1] \/ (c[1] = d[1] /\ c[2] < d[2])

\* C2: the anchor _get_max_anchor selects is a cell of the grid holding the
\* grid's maximum, no cell before it in row-major order holds that maximum,
\* and the confidence (np.amax) is the value at the anchor.
C2_FirstMaxAnchor ==
    pc = "anchor" =>
        /\ anchor \in Cells(probs.shape)
        /\ \A c \in Cells(probs.shape) :
               /\ probs.data[c[1]][c[2]] <= probs.data[anchor[1]][anchor[2]]
               /\ Before(c, anchor) =>
                      probs.data[c[1]][c[2]] < probs.data[anchor[1]][anchor[2]]
        /\ max_prob = probs.data[anchor[1]][anchor[2]]

\* C2's case: the maximum is shared by a cell after the selected anchor.
C2_Witness ==
    /\ pc = "anchor"
    /\ \E c \in Cells(probs.shape) :
           /\ Before(anchor, c)
           /\ probs.data[c[1]][c[2]] = max_prob
    /\ anchor # <<0, 0>>

\* --------------------------------------------------------- _get_bounds
\* An affine grid of shape (6, grid_h, grid_w): [shape |-> <<grid_h, grid_w>>,
\* data |-> [0..5 -> [0..grid_h-1 -> [0..grid_w-1 -> value]]]].
\* affines[:, y, x]: the six parameters a00, a01, a02, a10, a11, a12.
ThetaAt(aff, y, x) == [k \in 0..5 |-> aff.data[k][y][x]]

\* A faulty variant of QTemplate2: the corners listed top-left, bottom-left,
\* bottom-right, top-right.
QTemplate2Transposed ==
    << <<-1, -1, 1, 1>>,
       <<-1, 1, 1, -1>>,
       <<2, 2, 2, 2>> >>

\* _q, doubled so that its entries are integers: one row per homogeneous
\* coordinate, one column per corner.
QTemplate2 ==
    << <<-1, 1, 1, -1>>,
       <<-1, -1, 1, 1>>,
       <<2, 2, 2, 2>> >>

\* _scaling_const = 7.75 = 31 / 4
ScalingNum == 31

ScalingDen == 4

\* The unit of a decoded coordinate: 1 / (2 * ScalingDen).
Eighths == 2 * ScalingDen

\* A faulty variant of ClampScale: the diagonal term is used as it is.
NoClampScale(v) == v

\* max(theta[i, i], 0.0)
ClampScale(v) == Max2(v, 0)

\* Lines 84-87: theta is a view of affines (a basic slice, then a reshape of a
\* 1-D strided array, which numpy does without copying), so the two
\* assignments write the clamped terms into affines[0, y, x] and
\* affines[4, y, x].
ClampedGrid(aff, y, x) ==
    [aff EXCEPT !.data[0][y][x] = ClampScale(@),
                !.data[4][y][x] = ClampScale(@)]

\* Line 90, entry (r, i) of np.matmul(theta, _q) * _scaling_const, in eighths.
MatMulScaled(theta, r, i) ==
    ScalingNum * (  theta[3 * r] * QTemplate2[1][i]
                  + theta[3 * r + 1] * QTemplate2[2][i]
                  + theta[3 * r + 2] * QTemplate2[3][i])

\* Lines 94, 95: (bounds + anchor + .5), in eighths; the division by grid_w or
\* grid_h is kept as the denominator.
Normalise(raw, anchor_c) == raw + Eighths * anchor_c + (Eighths \div 2)

\* The theta _get_bounds decodes: the slice after the two clamps.
ClampedTheta(aff, y, x) ==
    [ThetaAt(aff, y, x) EXCEPT ![0] = ClampScale(@), ![4] = ClampScale(@)]

\* _get_bounds(affines, anchor_y, anchor_x): what it raises, what it returns
\* (four points <<x, y>> as numerators over xden and yden) and the array it
\* leaves behind.
GetBoundsOf(aff, y, x) ==
    IF ~(y \in 0..(GridH(aff) - 1) /\ x \in 0..(GridW(aff) - 1))
    THEN [err |-> "IndexError", bounds |-> None, affines |-> aff]
    ELSE LET theta == ClampedTheta(aff, y, x)
         IN  [err     |-> "none",
              bounds  |-> [pts  |-> [i \in 1..4 |->
                                        <<Normalise(MatMulScaled(theta, 0, i), x),
                                          Normalise(MatMulScaled(theta, 1, i), y)>>],
                           xden |-> Eighths * GridW(aff),
                           yden |-> Eighths * GridH(aff)],
              affines |-> ClampedGrid(aff, y, x)]

\* A call of _get_bounds on the array as it is now, at the same anchor.
GetBounds ==
    /\ pc \in {"call", "decoded"}
    /\ calls < MaxCalls
    /\ LET r == GetBoundsOf(affines, anchor[1], anchor[2])
       IN  /\ bounds' = r.bounds
           /\ affines' = r.affines
           /\ err' = r.err
    /\ calls' = calls + 1
    /\ pc' = "decoded"
    /\ UNCHANGED <<image, resized, probs, affines0, max_prob, anchor, pred,
                   pred0, saved>>

\* The parameters of the cells the test does not set: they depend on the
\* cell and take both signs.
Background(k, y, x) == ((k + y + 2 * x) % 3) - 1

\* The grid that holds theta at cell c and Background elsewhere.
GridWith(shape, c, theta) ==
    [shape |-> shape,
     data  |-> [k \in 0..5 |->
                   [y \in 0..(shape[1] - 1) |->
                       [x \in 0..(shape[2] - 1) |->
                           IF <<y, x>> = c THEN theta[k]
                           ELSE Background(k, y, x)]]]]

\* The shapes of the affine grids drawn for _get_bounds.
BoundsShapes == {<<1, 1>>, <<2, 3>>}

\* The translation terms a02, a12 drawn for _get_bounds.
Shifts == {-1, 0, 1}

Thetas ==
    {[k \in 0..5 |-> CASE k = 0 -> a00 [] k = 1 -> a01 [] k = 2 -> a02
                       [] k = 3 -> a10 [] k = 4 -> a11 [] OTHER -> a12] :
        a00 \in -MaxScale..MaxScale, a11 \in -MaxScale..MaxScale,
        a01 \in -MaxShear..MaxShear, a10 \in -MaxShear..MaxShear,
        a02 \in Shifts, a12 \in Shifts}

InitBounds ==
    /\ pc = "call"
    /\ \E shape \in BoundsShapes :
           /\ anchor \in Cells(shape)
           /\ affines0 \in {GridWith(shape, anchor, t) : t \in Thetas}
    /\ affines = affines0
    /\ image = None
    /\ resized = None
    /\ probs = None
    /\ max_prob = NoProb
    /\ bounds = None
    /\ pred = None
    /\ pred0 = None
    /\ saved = NoFile
    /\ calls = 0
    /\ err = "none"

NextBounds == GetBounds

SpecBounds == InitBounds /\ [][NextBounds]_vars

\* The parameters the caller passed at the anchor.
Theta0 == ThetaAt(affines0, anchor[1], anchor[2])

\* a00 = 1, a11 = 1, the other four 0.
IdentityLike == [k \in 0..5 |-> IF k \in {0, 4} THEN 1 ELSE 0]

\* The corners come in the order top-left, top-right, bottom-right,
\* bottom-left: the first and last share the smaller x, the first two the
\* smaller y.
CornerOrder(b) ==
    /\ b.pts[1][1] = b.pts[4][1] /\ b.pts[2][1] = b.pts[3][1]
    /\ b.pts[1][1] < b.pts[2][1]
    /\ b.pts[1][2] = b.pts[2][2] /\ b.pts[3][2] = b.pts[4][2]
    /\ b.pts[1][2] < b.pts[3][2]

\* Every corner lies within [0, 1] x [0, 1].
InUnitSquare(b) ==
    \A i \in 1..4 : /\ 0 <= b.pts[i][1] /\ b.pts[i][1] <= b.xden
                    /\ 0 <= b.pts[i][2] /\ b.pts[i][2] <= b.yden

C3_Case ==
    /\ pc = "decoded"
    /\ affines0.shape = <<1, 1>>
    /\ Theta0 = IdentityLike

\* C3 as stated: identity-like parameters at anchor (0, 0) of a 1x1 grid decode
\* to corners in the order top-left, top-right, bottom-right, bottom-left,
\* each within [0, 1] x [0, 1].
C3_Original == C3_Case => CornerOrder(bounds) /\ InUnitSquare(bounds)

\* C3 as amended: identity-like parameters at anchor (0, 0) of a 1x1 grid
\* decode to corners in the order top-left, top-right, bottom-right,
\* bottom-left, at (-3.375, -3.375), (4.375, -3.375), (4.375, 4.375),
\* (-3.375, 4.375): the square of side 7.75 centred on (0.5, 0.5), which
\* reaches beyond [0, 1] x [0, 1].
C3_CornerOrder ==
    C3_Case =>
        /\ CornerOrder(bounds)
        /\ bounds.xden = 8 /\ bounds.yden = 8
        /\ bounds.pts = << <<-27, -27>>, <<35, -27>>, <<35, 35>>, <<-27, 35>> >>

C3_Witness == C3_Case /\ calls = 1 /\ anchor = <<0, 0>>

\* C4: a negative a00 decodes to the quadrilateral that a00 = 0 decodes to,
\* whatever the anchor and the other five parameters, so the top-right corner
\* is not left of the top-left one (the x-extent a00 spans is zero, not
\* mirrored); and the same for a11 and the y-extent.
C4_ScaleClamp ==
    pc = "decoded" =>
        /\ Theta0[0] < 0 =>
             /\ bounds = GetBoundsOf([affines0 EXCEPT
                                        !.data[0][anchor[1]][anchor[2]] = 0],
                                     anchor[1], anchor[2]).bounds
             /\ bounds.pts[2][1] = bounds.pts[1][1]
        /\ Theta0[4] < 0 =>
             /\ bounds = GetBoundsOf([affines0 EXCEPT
                                        !.data[4][anchor[1]][anchor[2]] = 0],
                                     anchor[1], anchor[2]).bounds
             /\ bounds.pts[4][2] = bounds.pts[1][2]

C4_Witness ==
    /\ pc = "decoded"
    /\ calls = 1
    /\ Theta0[0] = -2
    /\ Theta0[4] > 0
    /\ anchor = <<1, 2>>

\* C10: _get_bounds leaves every entry of the affine grid it is given
\* unchanged, the parameters at the anchor included.
C10_GridUnchanged == pc = "decoded" => affines = affines0

\* ------------------------------------------------------------- predict
\* A faulty variant of ScaleToImage: x is scaled by the height and y by the width.
ScaleToImageSwapped(b, orig_w, orig_h) ==
    [i \in 1..4 |-> <<TruncDiv(b.pts[i][1] * orig_h, b.xden),
                      TruncDiv(b.pts[i][2] * orig_w, b.yden)>>]

\* Lines 118, 119, 123: bounds[:, 0] *= orig_w, bounds[:, 1] *= orig_h,
\* bounds.astype(np.int32).
ScaleToImage(b, orig_w, orig_h) ==
    [i \in 1..4 |-> <<TruncDiv(b.pts[i][1] * orig_w, b.xden),
                      TruncDiv(b.pts[i][2] * orig_h, b.yden)>>]

\* predict(image), the network returning out = [probs, affines]: one call,
\* from the resize to the Prediction or the exception.  The resized size goes
\* to the network only, whose grids the model draws freely, so the float
\* outcome of the resize is the last thing drawn.
Predict(img, out) ==
    /\ pc = "idle"
    /\ image' = img
    /\ calls' = calls
    /\ saved' = saved
    /\ IF Min2(img.height, img.width) = 0
       THEN \* line 104: _resize_to_fixed_ratio divides by min(h, w)
            /\ err' = "ZeroDivisionError"
            /\ pc' = "raised"
            /\ UNCHANGED <<resized, probs, affines, affines0, max_prob, anchor,
                           bounds, pred, pred0>>
       ELSE LET side == Side(img.height, img.width)
                bound_dim == BoundDim(side)
                m == Min2(img.height, img.width)
                a == GetMaxAnchorOf(out.probs)
                r == GetBoundsOf(out.affines, a[1], a[2])
                p == [image      |-> img,
                      bounds     |-> ScaleToImage(r.bounds, img.width, img.height),
                      confidence |-> Amax(out.probs)]
            IN  /\ probs' = out.probs
                /\ affines0' = out.affines
                /\ max_prob' = Amax(out.probs)
                /\ anchor' = a
                /\ affines' = r.affines
                /\ bounds' = r.bounds
                /\ err' = r.err
                /\ IF r.err = "none"
                   THEN pred' = p /\ pred0' = p /\ pc' = "returned"
                   ELSE pred' = None /\ pred0' = None /\ pc' = "raised"
                /\ \E reg_w \in FloatFloor(img.width * bound_dim, m),
                      reg_h \in FloatFloor(img.height * bound_dim, m) :
                       resized' = [side |-> side, bound_dim |-> bound_dim,
                                   reg_w |-> reg_w, reg_h |-> reg_h]

\* ---------------------------------------------------------- Prediction
\* A faulty variant of StoredImageAfterAnnotate: the polygon is drawn on self.image.
DrawnInPlace(p, shape) == [p.image EXCEPT !.pixels = @ \cup {shape}]

\* Line 20: annotate draws on self.image.copy(), so the stored image is what
\* it was.
StoredImageAfterAnnotate(p, shape) == p.image

\* The locals of predict are kept in the state predict ends in; they are gone
\* once the caller goes on to use the Prediction.
LocalsDropped ==
    /\ resized' = None
    /\ probs' = None
    /\ affines' = None
    /\ affines0' = None
    /\ max_prob' = NoProb
    /\ anchor' = NoAnchor
    /\ bounds' = None

\* annotate(fp, outline, width)
Annotate(fp, outline, width) ==
    /\ pc \in {"returned", "annotated", "warped"}
    /\ LET shape == [polygon |-> pred.bounds, outline |-> outline, width |-> width]
           canvas == [pred.image EXCEPT !.pixels = @ \cup {shape}]
       IN  /\ saved' = [fp |-> fp, kind |-> "annotate", image |-> canvas]
           /\ pred' = [pred EXCEPT !.image = StoredImageAfterAnnotate(pred, shape)]
    /\ err' = "none"
    /\ pc' = "annotated"
    /\ LocalsDropped
    /\ UNCHANGED <<image, pred0, calls>>

\* Twice the signed area of the triangle a, b, c: zero when they are collinear.
Cross(a, b, c) ==
    (b[1] - a[1]) * (c[2] - a[2]) - (b[2] - a[2]) * (c[1] - a[1])

Triples == {<<1, 2, 3>>, <<1, 2, 4>>, <<1, 3, 4>>, <<2, 3, 4>>}

\* The four points lie on one line (or coincide): the 8x8 system of
\* _get_perspective_coeffs then has rank at most 7.
AllCollinear(q) == \A t \in Triples : Cross(q[t[1]], q[t[2]], q[t[3]]) = 0

\* No three of the four points lie on one line: the system has one solution.
GeneralPosition(q) == \A t \in Triples : Cross(q[t[1]], q[t[2]], q[t[3]]) # 0

\* Line 33: what _get_perspective_coeffs(src_points, dst_points) can do.  The
\* code checks nothing before or after the call.  On a singular system the
\* least-squares solve either raises the library's own error or returns
\* coefficients that mean nothing; between the two cases above the system is
\* singular for some quadrilaterals and not for others.
CoeffOutcomes(q) ==
    IF GeneralPosition(q) THEN {"solved"}
    ELSE IF AllCollinear(q) THEN {"LinAlgError", "undefined"}
    ELSE {"solved", "LinAlgError", "undefined"}

\* warp(fp, width, height)
Warp(fp, width, height) ==
    /\ pc \in {"returned", "annotated", "warped"}
    /\ \E outcome \in CoeffOutcomes(pred.bounds) :
           IF outcome = "LinAlgError"
           THEN /\ err' = "LinAlgError"
                /\ UNCHANGED saved
           ELSE \* lines 34, 36: transform returns a new image, which is saved
                /\ saved' = [fp |-> fp, kind |-> "warp",
                             image |-> [height |-> height, width |-> width,
                                        pixels |-> {[warped |-> pred.image.pixels,
                                                     src |-> pred.bounds,
                                                     coeffs |-> outcome]}]]
                /\ err' = "none"
    /\ pc' = "warped"
    /\ LocalsDropped
    /\ UNCHANGED <<image, pred, pred0, calls>>

\* ------------------------------------------------- the inputs of predict
\* The image sides drawn for predict.
PredictDims == {0, 1, 13, MaxDim}

\* The affine parameters drawn for predict: identity-like, a negative a00,
\* all zero, a shear, a translation, a larger scale.
PredictThetas ==
    {IdentityLike,
     [IdentityLike EXCEPT ![0] = -2],
     [k \in 0..5 |-> 0],
     [IdentityLike EXCEPT ![1] = 1],
     [IdentityLike EXCEPT ![2] = 1, ![5] = -1],
     [IdentityLike EXCEPT ![0] = 2, ![4] = 2]}

\* The grid that is 0.0 everywhere but 1.0 at cell c.
OneHot(shape, c) ==
    [shape |-> shape,
     data  |-> [y \in 0..(shape[1] - 1) |->
                   [x \in 0..(shape[2] - 1) |->
                       IF <<y, x>> = c THEN MaxProb ELSE 0]]]

\* The cell of the end-to-end scenario, and the grid shapes it is put in.
ScenarioCell == <<10, 20>>

ScenarioShapes == {<<11, 21>>, <<15, 25>>}

\* The grid of the scenario as the specification words it: 100 wide, 50 high.
ScenarioGrid == <<50, 100>>

\* What the network can return.  Its two grids have sides of at least 2 (the
\* squeeze of lines 74, 75 then removes the batch axis only) and need not
\* agree in shape.
SmallOutputs ==
    {[probs |-> g, affines |-> GridWith(s, c, t)] :
        g \in AllGrids(<<2, 2>>, {0, MaxProb}) \cup
              {OneHot(<<2, 3>>, c2) : c2 \in Cells(<<2, 3>>)},
        s \in {<<2, 2>>, <<2, 3>>, <<3, 3>>},
        c \in {<<0, 0>>, <<1, 1>>},
        t \in PredictThetas}

ScenarioOutputs(shapes, thetas) ==
    {[probs |-> OneHot(s, ScenarioCell),
      affines |-> GridWith(<<s[1] + d, s[2] + d>>, ScenarioCell, t)] :
        s \in shapes, d \in {-1, 0, 1}, t \in thetas}

\* The calls of predict: every image on the scenario's smaller grids, the
\* smallest images on its 100x50 grid, the larger images on the small grids.
PredictCases ==
    (Images(PredictDims) \X ScenarioOutputs(ScenarioShapes, PredictThetas))
        \cup (Images({1, 13}) \X
                  ScenarioOutputs({ScenarioGrid},
                                  {IdentityLike, [IdentityLike EXCEPT ![0] = -2]}))
        \cup (Images({13, MaxDim}) \X SmallOutputs)

\* The arguments drawn for annotate and warp.
Paths == {"out.jpg"}

InitPredict ==
    /\ pc = "idle"
    /\ image = None
    /\ resized = None
    /\ probs = None
    /\ affines = None
    /\ affines0 = None
    /\ max_prob = NoProb
    /\ anchor = NoAnchor
    /\ bounds = None
    /\ pred = None
    /\ pred0 = None
    /\ saved = NoFile
    /\ calls = 0
    /\ err = "none"

NextPredict ==
    \/ \E c \in PredictCases : Predict(c[1], c[2])
    \/ \E fp \in Paths, width \in {1, 3} : Annotate(fp, "red", width)
    \/ \E fp \in Paths, size \in {<<208, 60>>, <<100, 30>>} :
           Warp(fp, size[1], size[2])

SpecPredict == InitPredict /\ [][NextPredict]_vars

\* The image of the Prediction and the grid sizes of the call.
OrigW == pred.image.width

OrigH == pred.image.height

\* predict returned on the scenario's output: the probability grid is 0.0
\* everywhere but 1.0 at (anchor_y, anchor_x) = (10, 20), and the affine grid,
\* of the same shape, holds identity-like parameters at that cell.
ScenarioReturned ==
    /\ pc = "returned"
    /\ ScenarioCell \in Cells(probs.shape)
    /\ probs = OneHot(probs.shape, ScenarioCell)
    /\ affines0.shape = probs.shape
    /\ ThetaAt(affines0, ScenarioCell[1], ScenarioCell[2]) = IdentityLike

\* Every corner (x, y) has 0 <= x < orig_w and 0 <= y < orig_h.
InsideImage(q) ==
    \A i \in 1..4 : /\ 0 <= q[i][1] /\ q[i][1] < OrigW
                    /\ 0 <= q[i][2] /\ q[i][2] < OrigH

\* The four points, taken in order, turn the same way at every corner and
\* never go straight: a convex quadrilateral that does not cross itself.
ConvexQuad(q) ==
    LET turns == {Cross(q[1], q[2], q[3]), Cross(q[2], q[3], q[4]),
                  Cross(q[3], q[4], q[1]), Cross(q[4], q[1], q[2])}
    IN  (\A t \in turns : t > 0) \/ (\A t \in turns : t < 0)

\* An axis-aligned rectangle listed top-left, top-right, bottom-right,
\* bottom-left, whose sides may have length 0.
Rectangle(q) ==
    /\ q[1][1] = q[4][1] /\ q[2][1] = q[3][1] /\ q[1][1] <= q[2][1]
    /\ q[1][2] = q[2][2] /\ q[3][2] = q[4][2] /\ q[1][2] <= q[3][2]

\* C5 as stated: on the scenario's output predict returns confidence 1.0 and
\* bounds that form a convex, non-self-intersecting quadrilateral inside the
\* image.
C5_Original ==
    ScenarioReturned =>
        /\ pred.confidence = MaxProb
        /\ InsideImage(pred.bounds)
        /\ ConvexQuad(pred.bounds)

\* C5 as amended: on the scenario's output over a grid with grid_w >= 25 and
\* grid_h >= 15 (the 100x50 grid among them) predict returns confidence 1.0
\* and bounds that are an axis-aligned rectangle, listed top-left, top-right,
\* bottom-right, bottom-left, with every corner inside the image; the
\* rectangle is a convex, non-self-intersecting quadrilateral when
\* 7.75 * orig_w > grid_w and 7.75 * orig_h > grid_h, and may collapse to a
\* segment or a point on a smaller image.
C5_EndToEnd ==
    (ScenarioReturned /\ GridW(probs) >= 25 /\ GridH(probs) >= 15) =>
        /\ pred.confidence = MaxProb
        /\ InsideImage(pred.bounds)
        /\ Rectangle(pred.bounds)
        /\ (/\ ScalingNum * OrigW > ScalingDen * GridW(probs)
            /\ ScalingNum * OrigH > ScalingDen * GridH(probs))
               => ConvexQuad(pred.bounds)

C5_Witness ==
    /\ ScenarioReturned
    /\ probs.shape = ScenarioGrid
    /\ OrigW = 13 /\ OrigH = 13
    /\ ConvexQuad(pred.bounds)
    /\ anchor = ScenarioCell

\* C6: warp on four collinear or coincident source points ends in a
\* SingularTransformError, never in a saved image.
C6_SingularWarp ==
    (pc = "warped" /\ AllCollinear(pred.bounds)) =>
        err = "SingularTransformError"

\* C7: when the affine grid's (grid_h, grid_w) differ from the probability
\* grid's, predict raises ShapeMismatchError and returns no Prediction.
C7_ShapeMismatch ==
    (pc \in {"returned", "raised"} /\ err # "ZeroDivisionError"
        /\ affines0.shape # probs.shape) =>
        /\ err = "ShapeMismatchError"
        /\ pred = None

\* C9: after any annotate and warp calls the Prediction's image pixels, bounds
\* and confidence are what they were when predict returned it.
C9_PredictionReadOnly ==
    pc \in {"returned", "annotated", "warped"} => pred = pred0

\* C9's case: an annotate wrote its file, then a warp ran.
C9_Witness ==
    /\ pc = "warped"
    /\ err = "LinAlgError"
    /\ saved.kind = "annotate"
    /\ \E shape \in saved.image.pixels : shape.polygon = pred.bounds
    /\ pred0.image.pixels = {}

=============================================================================
